---------------------------- MODULE Spec2Model ----------------------------
(***************************************************************************)
(* Model of the Notion incoming webhook (zerver/webhooks/notion/view.py).  *)
(*                                                                         *)
(* One request is processed per behaviour.  The request's inputs (decoded  *)
(* payload, notion_token, user_specified_topic, map_pages_to_topics) are   *)
(* drawn in Init.  The steps of api_notion_webhook are split at the calls  *)
(* of the Notion API (requests.get), each of which is a request step and a *)
(* response step; everything between two such calls is one step.           *)
(*                                                                         *)
(* JSON values are tagged records: None, Str, Num, List, Dict.  A Dict is  *)
(* the sequence of its <<key, value>> pairs in document order, as Python   *)
(* dicts keep insertion order.  A Python exception leaving an expression   *)
(* is the value Raise(exc).                                                *)
(***************************************************************************)
EXTENDS Integers, Sequences, FiniteSets, TLC

VARIABLES
    payload,               \* the decoded JSON body (WildValue)
    notion_token,          \* query parameter, "" when not supplied
    user_specified_topic,  \* None or Str(topic)
    map_pages_to_topics,   \* BOOLEAN
    pc,                    \* position in api_notion_webhook
    event_type,            \* local of api_notion_webhook ("" before line 611)
    handler_function,      \* name of the formatter invoked ("" when none is)
    entity_id,             \* page_id / database_id / data_source_id local
    page_title,            \* page_title / database_title / data_source_title
    author,                \* the formatter's local `author`
    result,                \* <<topic_name, body>> returned by the formatter
    lookups,               \* log of the requests.get calls, with responses
    sent,                  \* log of the check_send_webhook_message calls
    error,                 \* exception that left api_notion_webhook
    response               \* HttpResponse returned

vars == <<payload, notion_token, user_specified_topic, map_pages_to_topics,
          pc, event_type, handler_function, entity_id, page_title, author,
          result, lookups, sent, error, response>>

---------------------------------------------------------------------------
(* JSON values and Python exceptions *)

None == [k |-> "null"]
Str(s) == [k |-> "str", v |-> s]
Num(n) == [k |-> "num", v |-> n]
List(s) == [k |-> "list", v |-> s]
Dict(pairs) == [k |-> "dict", v |-> pairs]
Raise(exc) == [k |-> "raise", exc |-> exc]
IsRaise(w) == w.k = "raise"
\* marks a key that the document does not carry (never a value of a Dict)
Absent == [k |-> "absent"]
\* a response body that response.json() cannot decode
NotJson == [k |-> "notjson"]

\* the Dict of the given pairs without the keys marked Absent
MkDict(pairs) == Dict(SelectSeq(pairs, LAMBDA p : p[2] # Absent))

HasKey(d, key) == \E i \in 1..Len(d.v) : d.v[i][1] = key
Lookup(d, key) == d.v[CHOOSE i \in 1..Len(d.v) : d.v[i][1] = key][2]

\* Python truth value of a JSON value (bool(x))
Truthy(w) ==
    CASE w.k = "null" -> FALSE
      [] w.k = "str" -> w.v # ""
      [] w.k = "num" -> w.v # 0
      [] w.k \in {"list", "dict"} -> Len(w.v) > 0

\* str(x) as an f-string renders a value
Format(w) ==
    CASE w.k = "str" -> w.v
      [] w.k = "num" -> ToString(w.v)
      [] w.k = "null" -> "None"

\* dict.get(key, default) on a decoded JSON value; AttributeError on a
\* value that is no dict
dict_get(w, key, default) ==
    IF IsRaise(w) THEN w
    ELSE IF w.k = "dict"
         THEN IF HasKey(w, key) THEN Lookup(w, key) ELSE default
         ELSE Raise("AttributeError")

\* `key in x`: key test on a dict, element test on a list; on a value that is
\* no container (None, a number) the test raises TypeError
NotContainer(w) == w.k \in {"null", "num"}
Contains(w, key) ==
    CASE w.k = "dict" -> HasKey(w, key)
      [] w.k = "list" -> \E i \in 1..Len(w.v) : w.v[i] = Str(key)

---------------------------------------------------------------------------
(* WildValue accessors and validators as view.py uses them *)

\* WildValue.get(key, default): the value, the default when the key is
\* missing, ValidationError when the receiver is no dict
WildValue_get(w, key, default) ==
    IF IsRaise(w) THEN w
    ELSE IF w.k = "dict"
         THEN IF HasKey(w, key) THEN Lookup(w, key) ELSE default
         ELSE Raise("ValidationError")

\* WildValue[key]: ValidationError when the key is missing or the receiver
\* is no dict
WildValue_getitem(w, key) ==
    IF IsRaise(w) THEN w
    ELSE IF w.k = "dict" /\ HasKey(w, key) THEN Lookup(w, key)
         ELSE Raise("ValidationError")

\* .tame(check_string)
check_string(w) ==
    IF IsRaise(w) THEN w
    ELSE IF w.k = "str" THEN w ELSE Raise("ValidationError")

\* .tame(check_none_or(check_string))
check_none_or_string(w) ==
    IF IsRaise(w) THEN w
    ELSE IF w.k \in {"null", "str"} THEN w ELSE Raise("ValidationError")

\* .tame(check_list(check_dict([("id", check_string), ("type", check_string)])))
check_authors_list(w) ==
    IF IsRaise(w) THEN w
    ELSE IF /\ w.k = "list"
            /\ \A i \in 1..Len(w.v) :
                 /\ w.v[i].k = "dict"
                 /\ HasKey(w.v[i], "id") /\ Lookup(w.v[i], "id").k = "str"
                 /\ HasKey(w.v[i], "type") /\ Lookup(w.v[i], "type").k = "str"
         THEN w
         ELSE Raise("ValidationError")

---------------------------------------------------------------------------
(* Title extraction from a fetched record *)

UNTITLED_PAGE == "Untitled Page"
UNTITLED_DATABASE == "Untitled Database"
\* tries Name before title
COMMON_NAMES_NameFirst == <<"Name", "title", "Title", "name">>
COMMON_NAMES == <<"title", "Title", "Name", "name">>

\* lines 45-50 and 54-59: what one property value gives: the plain text
\* returned, Absent when the loop goes on, Raise when the code raises
TitleOfProperty(prop_value) ==
    IF prop_value.k = "dict" /\ dict_get(prop_value, "type", None) = Str("title")
    THEN LET title_content == dict_get(prop_value, "title", List(<<>>)) IN
         IF Truthy(title_content) /\ title_content.k = "list"
         THEN LET plain_text == dict_get(title_content.v[1], "plain_text", None) IN
              IF IsRaise(plain_text) THEN plain_text
              ELSE IF Truthy(plain_text) THEN plain_text ELSE Absent
         ELSE Absent
    ELSE Absent

\* lines 53-61: the fallback loop over properties.values(), in dict order
RECURSIVE ScanAllProperties(_, _)
ScanAllProperties(properties, i) ==
    IF properties.k # "dict" THEN Raise("AttributeError")
    ELSE IF i > Len(properties.v) THEN Str(UNTITLED_PAGE)
    ELSE LET t == TitleOfProperty(properties.v[i][2]) IN
         IF t = Absent THEN ScanAllProperties(properties, i + 1) ELSE t

\* lines 42-50: the loop over the common property names
RECURSIVE TryCommonNames(_, _)
TryCommonNames(properties, i) ==
    IF i > Len(COMMON_NAMES) THEN ScanAllProperties(properties, 1)
    ELSE IF NotContainer(properties) THEN Raise("TypeError")
    ELSE IF Contains(properties, COMMON_NAMES[i])
         THEN IF properties.k = "list" THEN Raise("TypeError")
              ELSE LET t == TitleOfProperty(Lookup(properties, COMMON_NAMES[i])) IN
                   IF t = Absent THEN TryCommonNames(properties, i + 1) ELSE t
         ELSE TryCommonNames(properties, i + 1)

extract_page_title(page_data) ==
    IF ~Truthy(page_data) THEN Str(UNTITLED_PAGE)
    ELSE IF NotContainer(page_data) THEN Raise("TypeError")
    ELSE IF ~Contains(page_data, "properties") THEN Str(UNTITLED_PAGE)
    ELSE LET properties == dict_get(page_data, "properties", Dict(<<>>)) IN
         IF IsRaise(properties) THEN properties
         ELSE TryCommonNames(properties, 1)

\* reads the first element of the title array only
FirstPlainText_FirstOnly(title_list, i) ==
    IF i > Len(title_list) THEN Str(UNTITLED_DATABASE)
    ELSE LET title_obj == title_list[i] IN
         IF title_obj.k = "dict" /\ Truthy(dict_get(title_obj, "plain_text", None))
         THEN dict_get(title_obj, "plain_text", None)
         ELSE Str(UNTITLED_DATABASE)

\* lines 71-75: the loop over the title array
RECURSIVE FirstPlainText(_, _)
FirstPlainText(title_list, i) ==
    IF i > Len(title_list) THEN Str(UNTITLED_DATABASE)
    ELSE LET title_obj == title_list[i] IN
         IF title_obj.k = "dict" /\ Truthy(dict_get(title_obj, "plain_text", None))
         THEN dict_get(title_obj, "plain_text", None)
         ELSE FirstPlainText(title_list, i + 1)

extract_database_title(database_data) ==
    IF ~Truthy(database_data) THEN Str(UNTITLED_DATABASE)
    ELSE LET title_list == dict_get(database_data, "title", List(<<>>)) IN
         IF IsRaise(title_list) THEN title_list
         ELSE IF Truthy(title_list) /\ title_list.k = "list"
              THEN FirstPlainText(title_list.v, 1)
              ELSE Str(UNTITLED_DATABASE)

---------------------------------------------------------------------------
(* Responses of the Notion API: requests.get raising (network error,       *)
(* timeout), or an HTTP response with its status and body                  *)

RequestException == [kind |-> "exception"]
Http(status_code, body) == [kind |-> "http", status_code |-> status_code, body |-> body]
\* the response argument of a lookup that is not issued
NoResponse == [kind |-> "none"]

\* gives the placeholder title, not the id, when there is no token
get_page_title_NoTokenUntitled(token, page_id, r) ==
    IF token = "" THEN UNTITLED_PAGE
    ELSE IF r.kind = "exception" THEN page_id
    ELSE IF r.status_code = 200
         THEN IF r.body = NotJson THEN page_id
              ELSE LET t == extract_page_title(r.body) IN
                   IF IsRaise(t) THEN page_id ELSE Format(t)
         ELSE page_id

get_page_title(token, page_id, r) ==
    IF token = "" THEN page_id
    ELSE IF r.kind = "exception" THEN page_id
    ELSE IF r.status_code = 200
         THEN IF r.body = NotJson THEN page_id
              ELSE LET t == extract_page_title(r.body) IN
                   IF IsRaise(t) THEN page_id ELSE Format(t)
         ELSE page_id

\* gives the placeholder title, not the id, for a status other than 200
get_database_title_StatusUntitled(token, database_id, r) ==
    IF token = "" THEN database_id
    ELSE IF r.kind = "exception" THEN database_id
    ELSE IF r.status_code = 200
         THEN IF r.body = NotJson THEN database_id
              ELSE LET t == extract_database_title(r.body) IN
                   IF IsRaise(t) THEN database_id ELSE Format(t)
         ELSE UNTITLED_DATABASE

get_database_title(token, database_id, r) ==
    IF token = "" THEN database_id
    ELSE IF r.kind = "exception" THEN database_id
    ELSE IF r.status_code = 200
         THEN IF r.body = NotJson THEN database_id
              ELSE LET t == extract_database_title(r.body) IN
                   IF IsRaise(t) THEN database_id ELSE Format(t)
         ELSE database_id

---------------------------------------------------------------------------
(* User names *)

LowerCase == <<"a", "b", "c", "d", "e", "f", "g", "h", "i", "j", "k", "l", "m",
               "n", "o", "p", "q", "r", "s", "t", "u", "v", "w", "x", "y", "z">>
UpperCase == <<"A", "B", "C", "D", "E", "F", "G", "H", "I", "J", "K", "L", "M",
               "N", "O", "P", "Q", "R", "S", "T", "U", "V", "W", "X", "Y", "Z">>
IsLower(c) == \E i \in 1..Len(LowerCase) : LowerCase[i] = c
IsUpper(c) == \E i \in 1..Len(UpperCase) : UpperCase[i] = c
IsCased(c) == IsLower(c) \/ IsUpper(c)
ToUpper(c) == IF IsLower(c) THEN UpperCase[CHOOSE i \in 1..Len(LowerCase) : LowerCase[i] = c] ELSE c
ToLower(c) == IF IsUpper(c) THEN LowerCase[CHOOSE i \in 1..Len(UpperCase) : UpperCase[i] = c] ELSE c

\* the characters of the e-mail addresses the user records of the model carry
Chars(s) ==
    CASE s = "ann.lee@x.io" -> <<"a", "n", "n", ".", "l", "e", "e", "@", "x", ".", "i", "o">>
      [] s = "BOB@x.io" -> <<"B", "O", "B", "@", "x", ".", "i", "o">>
      [] s = "@x.io" -> <<"@", "x", ".", "i", "o">>
      [] s = "root" -> <<"r", "o", "o", "t">>

RECURSIVE Join(_)
Join(cs) == IF cs = <<>> THEN "" ELSE Head(cs) \o Join(Tail(cs))

\* email.split("@")[0]
RECURSIVE LocalPart(_)
LocalPart(cs) ==
    IF cs = <<>> \/ Head(cs) = "@" THEN <<>> ELSE <<Head(cs)>> \o LocalPart(Tail(cs))

\* .replace(".", " ")
ReplaceDots(cs) == [i \in 1..Len(cs) |-> IF cs[i] = "." THEN " " ELSE cs[i]]

\* str.title(): a cased character is upper-cased after an uncased one (or at
\* the start) and lower-cased after a cased one
TitleCase(cs) ==
    [i \in 1..Len(cs) |->
        IF i > 1 /\ IsCased(cs[i - 1]) THEN ToLower(cs[i]) ELSE ToUpper(cs[i])]

\* line 141
NameFromEmail(email) == Join(TitleCase(ReplaceDots(LocalPart(Chars(email)))))

UserFallback(user_id) == "user: " \o user_id

\* lines 129-144: the branch of a response with status 200
UserNameFromBody(user_data, user_id) ==
    LET name == dict_get(user_data, "name", None) IN
    IF IsRaise(name) THEN UserFallback(user_id)
    ELSE IF Truthy(name) THEN Format(name)
    ELSE IF dict_get(user_data, "type", None) = Str("person")
         THEN LET person == dict_get(user_data, "person", Dict(<<>>))
                  email == dict_get(person, "email", Str(""))
              IN  IF IsRaise(email) THEN UserFallback(user_id)
                  ELSE IF Truthy(email)
                       THEN IF email.k = "str" THEN NameFromEmail(email.v)
                            ELSE UserFallback(user_id)
                       ELSE UserFallback(user_id)
         ELSE UserFallback(user_id)

get_user_name(token, user_id, r) ==
    IF user_id = "" THEN "Notion User"
    ELSE IF token = "" THEN UserFallback(user_id)
    ELSE IF r.kind = "exception" THEN UserFallback(user_id)
    ELSE IF r.status_code = 200
         THEN IF r.body = NotJson THEN UserFallback(user_id)
              ELSE UserNameFromBody(r.body, user_id)
         ELSE UserFallback(user_id)

\* lines 152-160: the id of the author get_author_name resolves: Str(id),
\* None when the function returns "" without resolving one, Raise when
\* authors.tame raises
first_author_id(p) ==
    LET authors == WildValue_get(p, "authors", None) IN
    IF Truthy(authors)
    THEN LET authors_list == check_authors_list(authors) IN
         IF IsRaise(authors_list) THEN authors_list
         ELSE LET user_id == dict_get(authors_list.v[1], "id", None) IN
              IF Truthy(user_id) THEN user_id ELSE None
    ELSE None

\* always the plural
OthersAnnotation_AlwaysPlural(others_count) ==
    " (+" \o ToString(others_count) \o " others)"

\* line 168
OthersAnnotation(others_count) ==
    " (+" \o ToString(others_count) \o " other"
          \o (IF others_count > 1 THEN "s" ELSE "") \o ")"

\* names an author when the event has none
get_author_name_Unattributed(p, token, r) ==
    LET user_id == first_author_id(p) IN
    IF IsRaise(user_id) THEN user_id
    ELSE IF user_id = None THEN Str("Notion User")
    ELSE LET authors_list == WildValue_get(p, "authors", None).v
             author_name == get_user_name(token, user_id.v, r)
         IN  IF Len(authors_list) > 1
             THEN Str(author_name \o OthersAnnotation(Len(authors_list) - 1))
             ELSE Str(author_name)

\* lines 151-172, given the response r of the user lookup (when one is issued)
get_author_name(p, token, r) ==
    LET user_id == first_author_id(p) IN
    IF IsRaise(user_id) THEN user_id
    ELSE IF user_id = None THEN Str("")
    ELSE LET authors_list == WildValue_get(p, "authors", None).v
             author_name == get_user_name(token, user_id.v, r)
         IN  IF Len(authors_list) > 1
             THEN Str(author_name \o OthersAnnotation(Len(authors_list) - 1))
             ELSE Str(author_name)

---------------------------------------------------------------------------
(* The formatters *)

\* Each formatter is the record of what its code fixes: the lookup it calls,
\* the pair it returns for an empty id, the prefix of its topic and the text
\* around author and title in its two bodies.

get_page_content_updated_message ==
    [name |-> "get_page_content_updated_message", kind |-> "entity", lookup |-> "pages",
     fallback |-> <<"Notion Page", "Page content was updated">>, prefix |-> "page: ",
     active |-> <<"** updated page **", "** content">>,
     passive |-> <<"Page **", "** content was updated">>]

get_page_created_message ==
    [name |-> "get_page_created_message", kind |-> "entity", lookup |-> "pages",
     fallback |-> <<"Notion Page", "New page was created">>, prefix |-> "page: ",
     active |-> <<"** created page **", "**">>,
     passive |-> <<"New page **", "** was created">>]

get_page_deleted_message ==
    [name |-> "get_page_deleted_message", kind |-> "entity", lookup |-> "pages",
     fallback |-> <<"Notion Page", "Page was moved to trash">>, prefix |-> "page: ",
     active |-> <<"** moved page **", "** to trash">>,
     passive |-> <<"Page **", "** was moved to trash">>]

get_page_locked_message ==
    [name |-> "get_page_locked_message", kind |-> "entity", lookup |-> "pages",
     fallback |-> <<"Notion Page", "Page was locked">>, prefix |-> "page: ",
     active |-> <<"** locked page **", "**">>,
     passive |-> <<"Page **", "** was locked">>]

get_page_moved_message ==
    [name |-> "get_page_moved_message", kind |-> "entity", lookup |-> "pages",
     fallback |-> <<"Notion Page", "Page was moved">>, prefix |-> "page: ",
     active |-> <<"** moved page **", "**">>,
     passive |-> <<"Page **", "** was moved">>]

get_page_properties_updated_message ==
    [name |-> "get_page_properties_updated_message", kind |-> "entity", lookup |-> "pages",
     fallback |-> <<"Notion Page", "Page properties were updated">>, prefix |-> "page: ",
     active |-> <<"** updated page **", "** properties">>,
     passive |-> <<"Page **", "** properties were updated">>]

get_page_undeleted_message ==
    [name |-> "get_page_undeleted_message", kind |-> "entity", lookup |-> "pages",
     fallback |-> <<"Notion Page", "Page was restored from trash">>, prefix |-> "page: ",
     active |-> <<"** restored page **", "** from trash">>,
     passive |-> <<"Page **", "** was restored from trash">>]

get_page_unlocked_message ==
    [name |-> "get_page_unlocked_message", kind |-> "entity", lookup |-> "pages",
     fallback |-> <<"Notion Page", "Page was unlocked">>, prefix |-> "page: ",
     active |-> <<"** unlocked page **", "**">>,
     passive |-> <<"Page **", "** was unlocked">>]

get_database_content_updated_message ==
    [name |-> "get_database_content_updated_message", kind |-> "entity", lookup |-> "databases",
     fallback |-> <<"Notion Database", "Database content was updated">>, prefix |-> "db: ",
     active |-> <<"** updated database **", "** content">>,
     passive |-> <<"Database **", "** content was updated">>]

get_database_created_message ==
    [name |-> "get_database_created_message", kind |-> "entity", lookup |-> "databases",
     fallback |-> <<"Notion Database", "New database was created">>, prefix |-> "db: ",
     active |-> <<"** created database **", "**">>,
     passive |-> <<"New database **", "** was created">>]

get_database_deleted_message ==
    [name |-> "get_database_deleted_message", kind |-> "entity", lookup |-> "databases",
     fallback |-> <<"Notion Database", "Database was moved to trash">>, prefix |-> "db: ",
     active |-> <<"** moved database **", "** to trash">>,
     passive |-> <<"Database **", "** was moved to trash">>]

get_database_moved_message ==
    [name |-> "get_database_moved_message", kind |-> "entity", lookup |-> "databases",
     fallback |-> <<"Notion Database", "Database was moved">>, prefix |-> "db: ",
     active |-> <<"** moved database **", "**">>,
     passive |-> <<"Database **", "** was moved">>]

get_database_schema_updated_message ==
    [name |-> "get_database_schema_updated_message", kind |-> "entity", lookup |-> "databases",
     fallback |-> <<"Notion Database", "Database schema was updated">>, prefix |-> "db: ",
     active |-> <<"** updated database **", "** schema">>,
     passive |-> <<"Database **", "** schema was updated">>]

get_database_undeleted_message ==
    [name |-> "get_database_undeleted_message", kind |-> "entity", lookup |-> "databases",
     fallback |-> <<"Notion Database", "Database was restored from trash">>, prefix |-> "db: ",
     active |-> <<"** restored database **", "** from trash">>,
     passive |-> <<"Database **", "** was restored from trash">>]

get_data_source_content_updated_message ==
    [name |-> "get_data_source_content_updated_message", kind |-> "entity", lookup |-> "databases",
     fallback |-> <<"Notion Data Source", "Data source content was updated">>, prefix |-> "ds: ",
     active |-> <<"** updated data source **", "** content">>,
     passive |-> <<"Data source **", "** content was updated">>]

get_data_source_created_message ==
    [name |-> "get_data_source_created_message", kind |-> "entity", lookup |-> "databases",
     fallback |-> <<"Notion Data Source", "New data source was created">>, prefix |-> "ds: ",
     active |-> <<"** created data source **", "**">>,
     passive |-> <<"New data source **", "** was created">>]

get_data_source_deleted_message ==
    [name |-> "get_data_source_deleted_message", kind |-> "entity", lookup |-> "databases",
     fallback |-> <<"Notion Data Source", "Data source was moved to trash">>, prefix |-> "ds: ",
     active |-> <<"** moved data source **", "** to trash">>,
     passive |-> <<"Data source **", "** was moved to trash">>]

get_data_source_moved_message ==
    [name |-> "get_data_source_moved_message", kind |-> "entity", lookup |-> "databases",
     fallback |-> <<"Notion Data Source", "Data source was moved">>, prefix |-> "ds: ",
     active |-> <<"** moved data source **", "**">>,
     passive |-> <<"Data source **", "** was moved">>]

get_data_source_schema_updated_message ==
    [name |-> "get_data_source_schema_updated_message", kind |-> "entity", lookup |-> "databases",
     fallback |-> <<"Notion Data Source", "Data source schema was updated">>, prefix |-> "ds: ",
     active |-> <<"** updated data source **", "** schema">>,
     passive |-> <<"Data source **", "** schema was updated">>]

get_data_source_undeleted_message ==
    [name |-> "get_data_source_undeleted_message", kind |-> "entity", lookup |-> "databases",
     fallback |-> <<"Notion Data Source", "Data source was restored from trash">>, prefix |-> "ds: ",
     active |-> <<"** restored data source **", "** from trash">>,
     passive |-> <<"Data source **", "** was restored from trash">>]

get_comment_created_message ==
    [name |-> "get_comment_created_message", kind |-> "comment", lookup |-> "pages",
     reads_parent |-> TRUE, prefix |-> "page: ",
     block_active |-> <<"** added a comment on a block in **", "**">>,
     block_passive |-> <<"New comment on a block in **", "**">>,
     active |-> <<"** added a comment on **", "**">>,
     passive |-> <<"New comment on **", "**">>,
     generic_hint |-> "Notion Update",
     generic_active |-> "** added a comment",
     generic_passive |-> "New comment was added"]

get_comment_deleted_message ==
    [name |-> "get_comment_deleted_message", kind |-> "comment", lookup |-> "pages",
     reads_parent |-> FALSE, prefix |-> "page: ",
     active |-> <<"** deleted a comment on **", "**">>,
     passive |-> <<"Comment deleted on **", "**">>,
     generic_hint |-> "Notion Update",
     generic_active |-> "** deleted a comment",
     generic_passive |-> "Comment was deleted"]

get_comment_updated_message ==
    [name |-> "get_comment_updated_message", kind |-> "comment", lookup |-> "pages",
     reads_parent |-> FALSE, prefix |-> "page: ",
     active |-> <<"** updated a comment on **", "**">>,
     passive |-> <<"Comment updated on **", "**">>,
     generic_hint |-> "Notion Update",
     generic_active |-> "** updated a comment",
     generic_passive |-> "Comment was updated"]

\* the table with a key for database.locked
EVENT_TO_FUNCTION_MAPPER_DatabaseLocked ==
    ("page.content_updated" :> get_page_content_updated_message)
    @@ ("page.created" :> get_page_created_message)
    @@ ("page.deleted" :> get_page_deleted_message)
    @@ ("page.locked" :> get_page_locked_message)
    @@ ("page.moved" :> get_page_moved_message)
    @@ ("page.properties_updated" :> get_page_properties_updated_message)
    @@ ("page.undeleted" :> get_page_undeleted_message)
    @@ ("page.unlocked" :> get_page_unlocked_message)
    @@ ("database.content_updated" :> get_database_content_updated_message)
    @@ ("database.created" :> get_database_created_message)
    @@ ("database.deleted" :> get_database_deleted_message)
    @@ ("database.moved" :> get_database_moved_message)
    @@ ("database.schema_updated" :> get_database_schema_updated_message)
    @@ ("database.undeleted" :> get_database_undeleted_message)
    @@ ("data_source.content_updated" :> get_data_source_content_updated_message)
    @@ ("data_source.created" :> get_data_source_created_message)
    @@ ("data_source.deleted" :> get_data_source_deleted_message)
    @@ ("data_source.moved" :> get_data_source_moved_message)
    @@ ("data_source.schema_updated" :> get_data_source_schema_updated_message)
    @@ ("data_source.undeleted" :> get_data_source_undeleted_message)
    @@ ("comment.created" :> get_comment_created_message)
    @@ ("comment.deleted" :> get_comment_deleted_message)
    @@ ("comment.updated" :> get_comment_updated_message)
    @@ ("database.locked" :> get_page_locked_message)

EVENT_TO_FUNCTION_MAPPER ==
    ("page.content_updated" :> get_page_content_updated_message)
    @@ ("page.created" :> get_page_created_message)
    @@ ("page.deleted" :> get_page_deleted_message)
    @@ ("page.locked" :> get_page_locked_message)
    @@ ("page.moved" :> get_page_moved_message)
    @@ ("page.properties_updated" :> get_page_properties_updated_message)
    @@ ("page.undeleted" :> get_page_undeleted_message)
    @@ ("page.unlocked" :> get_page_unlocked_message)
    @@ ("database.content_updated" :> get_database_content_updated_message)
    @@ ("database.created" :> get_database_created_message)
    @@ ("database.deleted" :> get_database_deleted_message)
    @@ ("database.moved" :> get_database_moved_message)
    @@ ("database.schema_updated" :> get_database_schema_updated_message)
    @@ ("database.undeleted" :> get_database_undeleted_message)
    @@ ("data_source.content_updated" :> get_data_source_content_updated_message)
    @@ ("data_source.created" :> get_data_source_created_message)
    @@ ("data_source.deleted" :> get_data_source_deleted_message)
    @@ ("data_source.moved" :> get_data_source_moved_message)
    @@ ("data_source.schema_updated" :> get_data_source_schema_updated_message)
    @@ ("data_source.undeleted" :> get_data_source_undeleted_message)
    @@ ("comment.created" :> get_comment_created_message)
    @@ ("comment.deleted" :> get_comment_deleted_message)
    @@ ("comment.updated" :> get_comment_updated_message)

ALL_EVENT_TYPES == DOMAIN EVENT_TO_FUNCTION_MAPPER

\* the active body whatever the author
Body_AlwaysActive(active, passive, author_str, title) ==
    "**" \o author_str \o active[1] \o title \o active[2]

\* the body f"**{author}** ... **{title}** ..." or its passive variant
Body(active, passive, author_str, title) ==
    IF author_str # ""
    THEN "**" \o author_str \o active[1] \o title \o active[2]
    ELSE passive[1] \o title \o passive[2]

\* the return of an entity formatter past its empty-id check
EntityResult(f, author_str, title) ==
    <<f.prefix \o title, Body(f.active, f.passive, author_str, title)>>

\* the block body for every parent that has a type
CommentResult_AnyParent(f, author_str, title, parent_type) ==
    IF f.reads_parent /\ parent_type # None
    THEN <<f.prefix \o title, Body(f.block_active, f.block_passive, author_str, title)>>
    ELSE <<f.prefix \o title, Body(f.active, f.passive, author_str, title)>>

\* the return of a comment formatter for a non-empty page id
CommentResult(f, author_str, title, parent_type) ==
    IF f.reads_parent /\ parent_type = Str("block")
    THEN <<f.prefix \o title, Body(f.block_active, f.block_passive, author_str, title)>>
    ELSE <<f.prefix \o title, Body(f.active, f.passive, author_str, title)>>

\* the return of a comment formatter when there is no page id
CommentGenericResult(f, author_str) ==
    <<f.generic_hint,
      IF author_str # "" THEN "**" \o author_str \o f.generic_active
      ELSE f.generic_passive>>

---------------------------------------------------------------------------
(* The request's inputs *)

\* the longest authors list of a payload
MaxAuthors == 4

AuthorRef(id) == Dict(<<<<"id", Str(id)>>, <<"type", Str("person")>>>>)
\* n authors, the first with the given id
AuthorsOf(first_id, n) ==
    List([i \in 1..n |-> IF i = 1 THEN AuthorRef(first_id)
                         ELSE AuthorRef("u" \o ToString(i))])

AuthorsValues ==
    {Absent, None, List(<<>>)}
    \cup {AuthorsOf("u1", n) : n \in 1..MaxAuthors}
    \cup {AuthorsOf("", n) : n \in 1..2}
    \* an author without "type", an author whose id is a number, no list
    \cup {List(<<Dict(<<<<"id", Str("u1")>>>>)>>),
          List(<<AuthorRef("u1"), Dict(<<<<"id", Num(7)>>, <<"type", Str("bot")>>>>)>>),
          Str("u1")}

EntityValues ==
    {Absent,
     Dict(<<<<"type", Str("page")>>>>),
     Dict(<<<<"id", Str("")>>, <<"type", Str("page")>>>>),
     Dict(<<<<"id", Str("e1")>>, <<"type", Str("page")>>>>),
     Dict(<<<<"id", None>>, <<"type", Str("page")>>>>)}

DataOf(page_id, parent) == MkDict(<<<<"page_id", page_id>>, <<"parent", parent>>>>)
ParentOf(type) == MkDict(<<<<"id", Str("b1")>>, <<"type", type>>>>)
DataValues ==
    {Absent, None, Dict(<<>>),
     DataOf(Str(""), Absent),
     DataOf(None, ParentOf(Str("block"))),
     DataOf(Num(7), Absent),
     DataOf(Str("p1"), Absent),
     DataOf(Str("p1"), ParentOf(Str("block"))),
     DataOf(Str("p1"), ParentOf(Str("page_id"))),
     DataOf(Str("p1"), ParentOf(Absent)),
     DataOf(Str("p1"), ParentOf(Num(7))),
     DataOf(Str("p1"), Str("block"))}

PayloadOf(token, type, entity, authors, data) ==
    MkDict(<<<<"verification_token", token>>, <<"type", type>>,
             <<"entity", entity>>, <<"authors", authors>>, <<"data", data>>>>)

EntityEventTypes == {t \in ALL_EVENT_TYPES : EVENT_TO_FUNCTION_MAPPER[t].kind = "entity"}
CommentEventTypes == {t \in ALL_EVENT_TYPES : EVENT_TO_FUNCTION_MAPPER[t].kind = "comment"}
\* type values the formatter table has no key for
OtherTypeValues ==
    {Absent, None, Num(7), Str(""), Str("foo.bar"), Str("database.locked"),
     Str("data_source.properties_updated"), Str("comment.created ")}

\* page, database and data-source events: entity and authors vary
EntityPayloads ==
    {PayloadOf(tok, Str(t), e, a, d) :
        tok \in {Absent, None}, t \in EntityEventTypes, e \in EntityValues,
        a \in AuthorsValues, d \in {Absent}}
\* comment events: data and authors vary, with and without an entity
CommentPayloads ==
    {PayloadOf(tok, Str(t), e, a, d) :
        tok \in {Absent}, t \in CommentEventTypes,
        e \in {Absent, Dict(<<<<"id", Str("e1")>>, <<"type", Str("comment")>>>>)},
        a \in AuthorsValues, d \in DataValues}
\* payloads carrying a verification_token, of any type
TokenPayloads ==
    {PayloadOf(tok, t, e, a, d) :
        tok \in {Str(""), Str("TOK"), Str("secret_t"), Num(7)},
        t \in {Absent, Str("foo.bar"), Str("page.created"), Str("comment.created")},
        e \in {Absent, Dict(<<<<"id", Str("e1")>>, <<"type", Str("page")>>>>)},
        a \in {Absent, AuthorsOf("u1", 1)},
        d \in {Absent, DataOf(Str("p1"), Absent)}}
\* payloads whose type is no key of the table
OtherTypePayloads ==
    {PayloadOf(tok, t, e, a, d) :
        tok \in {Absent, None}, t \in OtherTypeValues,
        e \in {Absent, Dict(<<<<"id", Str("e1")>>, <<"type", Str("page")>>>>)},
        a \in {Absent, AuthorsOf("u1", 1)},
        d \in {Absent, DataOf(Str("p1"), Absent)}}

Payloads == EntityPayloads \cup CommentPayloads \cup TokenPayloads \cup OtherTypePayloads

NotionTokens == {"", "secret"}
UserSpecifiedTopics == {None, Str(""), Str("MyTopic")}

\* a property of a page record holding the given rich-text spans
TitleProperty(spans) == Dict(<<<<"id", Str("title")>>, <<"type", Str("title")>>, <<"title", List(spans)>>>>)
Span(text) == Dict(<<<<"type", Str("text")>>, <<"plain_text", text>>>>)
PageRecord(properties) == Dict(<<<<"object", Str("page")>>, <<"properties", properties>>>>)

\* what requests.get of /v1/pages/{id} gives
PageResponses ==
    {RequestException, Http(404, NotJson), Http(200, NotJson),
     Http(200, Dict(<<>>)), Http(200, List(<<>>)),
     Http(200, PageRecord(Num(7))),
     Http(200, PageRecord(Dict(<<<<"Name", TitleProperty(<<Span(Str("Roadmap"))>>)>>>>)))}

\* what requests.get of /v1/databases/{id} gives
DatabaseResponses ==
    {RequestException, Http(404, NotJson), Http(200, NotJson),
     Http(200, Dict(<<>>)), Http(200, List(<<>>)),
     Http(200, Num(7)),
     Http(200, Dict(<<<<"object", Str("database")>>,
                      <<"title", List(<<Span(Str("")), Span(Str("Tasks"))>>)>>>>))}

\* what requests.get of /v1/users/{id} gives
UserResponses ==
    {RequestException, Http(404, NotJson), Http(200, NotJson),
     Http(200, List(<<>>)),
     Http(200, Dict(<<<<"type", Str("bot")>>>>)),
     Http(200, Dict(<<<<"name", Str("Alice")>>, <<"type", Str("person")>>>>)),
     Http(200, Dict(<<<<"type", Str("person")>>,
                      <<"person", Dict(<<<<"email", Str("ann.lee@x.io")>>>>)>>>>)),
     Http(200, Dict(<<<<"name", None>>, <<"type", Str("person")>>,
                      <<"person", Dict(<<<<"email", Str("@x.io")>>>>)>>>>))}

ResponsesOf(op) ==
    CASE op = "pages" -> PageResponses
      [] op = "databases" -> DatabaseResponses
      [] op = "users" -> UserResponses

\* a requests.get call that has not returned
Pending == [kind |-> "pending"]

---------------------------------------------------------------------------
(* The request *)

\* stands for the grave accent (U+0060), which a TLA+ string cannot hold
GraveAccent == "<U+0060>"

\* the token without the accents around it
NOTION_VERIFICATION_TOKEN_MESSAGE_Bare(token) ==
    "This is a webhook configuration test message from Notion.\n\nYour verification token is: "
    \o token
    \o "\n\nPlease copy this token and paste it into your Notion webhook configuration to complete the setup."

\* lines 17-23, with {token} filled in
NOTION_VERIFICATION_TOKEN_MESSAGE(token) ==
    "This is a webhook configuration test message from Notion.\n\nYour verification token is: "
    \o GraveAccent \o token \o GraveAccent
    \o "\n\nPlease copy this token and paste it into your Notion webhook configuration to complete the setup."

Bool(b) == [k |-> "bool", v |-> b]

\* tests the truth value of the token, not its presence
is_verification_Truthy(p) ==
    LET t == check_none_or_string(WildValue_get(p, "verification_token", None)) IN
    IF IsRaise(t) THEN t ELSE Bool(Truthy(t))

\* line 594
is_verification(p) ==
    LET t == check_none_or_string(WildValue_get(p, "verification_token", None)) IN
    IF IsRaise(t) THEN t ELSE Bool(t # None)

\* tests the flag before the override
TopicName_FlagFirst(hint, user_topic, map_pages) ==
    IF ~map_pages THEN "Notion"
    ELSE IF Truthy(user_topic) THEN user_topic.v
    ELSE hint

\* takes any override that is not null, the empty one included
TopicName_AnyOverride(hint, user_topic, map_pages) ==
    IF user_topic # None THEN user_topic.v
    ELSE IF ~map_pages THEN "Notion"
    ELSE hint

\* lines 619-622
TopicName(hint, user_topic, map_pages) ==
    IF Truthy(user_topic) THEN user_topic.v
    ELSE IF ~map_pages THEN "Notion"
    ELSE hint

\* the formatter the request runs
Handler == EVENT_TO_FUNCTION_MAPPER[event_type]

NoError == [exc |-> "", arg |-> ""]

Init ==
    /\ payload \in Payloads
    /\ notion_token \in NotionTokens
    /\ user_specified_topic \in UserSpecifiedTopics
    /\ map_pages_to_topics \in BOOLEAN
    /\ pc = "start"
    /\ event_type = ""
    /\ handler_function = ""
    /\ entity_id = ""
    /\ page_title = ""
    /\ author = ""
    /\ result = <<>>
    /\ lookups = <<>>
    /\ sent = <<>>
    /\ error = NoError
    /\ response = ""

inputs == <<payload, notion_token, user_specified_topic, map_pages_to_topics>>

\* raises without the argument of the exception
Abort_NoArgument(exc, arg) ==
    /\ pc' = "aborted"
    /\ error' = [exc |-> exc, arg |-> ""]

\* an exception leaves api_notion_webhook
Abort(exc, arg) ==
    /\ pc' = "aborted"
    /\ error' = [exc |-> exc, arg |-> arg]

\* lines 608-616: the handshake test and the choice of the formatter
api_notion_webhook ==
    /\ pc = "start"
    /\ LET v == is_verification(payload) IN
       IF IsRaise(v)
       THEN Abort(v.exc, "") /\ UNCHANGED <<event_type, handler_function>>
       ELSE IF v.v
       THEN pc' = "verification" /\ UNCHANGED <<error, event_type, handler_function>>
       ELSE LET t == check_string(WildValue_get(payload, "type", None)) IN
            IF IsRaise(t)
            THEN Abort(t.exc, "") /\ UNCHANGED <<event_type, handler_function>>
            ELSE IF t.v \notin DOMAIN EVENT_TO_FUNCTION_MAPPER
            THEN /\ Abort("UnsupportedWebhookEventTypeError", t.v)
                 /\ event_type' = t.v
                 /\ UNCHANGED handler_function
            ELSE /\ event_type' = t.v
                 /\ handler_function' = EVENT_TO_FUNCTION_MAPPER[t.v].name
                 /\ pc' = IF EVENT_TO_FUNCTION_MAPPER[t.v].kind = "entity"
                          THEN "entity_id" ELSE "author"
                 /\ UNCHANGED error
    /\ UNCHANGED <<inputs, entity_id, page_title, author, result, lookups, sent, response>>

\* lines 581-589
handle_verification_request ==
    /\ pc = "verification"
    /\ LET verification_token == check_string(WildValue_get(payload, "verification_token", None)) IN
       IF IsRaise(verification_token)
       THEN Abort(verification_token.exc, "") /\ UNCHANGED <<sent, response>>
       ELSE /\ sent' = Append(sent, [topic |-> "Notion",
                                     body |-> NOTION_VERIFICATION_TOKEN_MESSAGE(verification_token.v),
                                     complete_event_type |-> None])
            /\ response' = "json_success"
            /\ pc' = "done"
            /\ UNCHANGED error
    /\ UNCHANGED <<inputs, event_type, handler_function, entity_id, page_title, author,
                   result, lookups>>

\* the first three lines of a page, database or data-source formatter
\* (e.g. 176-178): the entity id and the return for an empty one
formatter_entity_id ==
    /\ pc = "entity_id"
    /\ LET id == check_string(WildValue_getitem(WildValue_getitem(payload, "entity"), "id")) IN
       IF IsRaise(id)
       THEN Abort(id.exc, "") /\ UNCHANGED <<entity_id, result>>
       ELSE IF id.v = ""
       THEN result' = Handler.fallback /\ pc' = "route" /\ UNCHANGED <<entity_id, error>>
       ELSE entity_id' = id.v /\ pc' = "title" /\ UNCHANGED <<result, error>>
    /\ UNCHANGED <<inputs, event_type, handler_function, page_title, author, lookups,
                   sent, response>>

\* takes the page id from entity.id
formatter_page_id_FromEntity ==
    /\ pc = "page_id"
    /\ LET page_id == check_none_or_string(
                          WildValue_get(WildValue_get(payload, "entity", Dict(<<>>)), "id", None)) IN
       IF IsRaise(page_id)
       THEN Abort(page_id.exc, "") /\ UNCHANGED <<entity_id, result>>
       ELSE IF Truthy(page_id)
       THEN entity_id' = page_id.v /\ pc' = "title" /\ UNCHANGED <<result, error>>
       ELSE /\ result' = CommentGenericResult(Handler, author)
            /\ pc' = "route"
            /\ UNCHANGED <<entity_id, error>>
    /\ UNCHANGED <<inputs, event_type, handler_function, page_title, author, lookups,
                   sent, response>>

\* the page id of a comment formatter and its return without one
\* (lines 483-485 and 508-509, and the same in the other two)
formatter_page_id ==
    /\ pc = "page_id"
    /\ LET page_id == check_none_or_string(
                          WildValue_get(WildValue_get(payload, "data", Dict(<<>>)), "page_id", None)) IN
       IF IsRaise(page_id)
       THEN Abort(page_id.exc, "") /\ UNCHANGED <<entity_id, result>>
       ELSE IF Truthy(page_id)
       THEN entity_id' = page_id.v /\ pc' = "title" /\ UNCHANGED <<result, error>>
       ELSE /\ result' = CommentGenericResult(Handler, author)
            /\ pc' = "route"
            /\ UNCHANGED <<entity_id, error>>
    /\ UNCHANGED <<inputs, event_type, handler_function, page_title, author, lookups,
                   sent, response>>

\* the page lookup for every formatter
TitleOf_PagesOnly(f, token, id, r) == get_page_title(token, id, r)

\* get_page_title or get_database_title, as the formatter calls it
TitleOf(f, token, id, r) ==
    IF f.lookup = "pages" THEN get_page_title(token, id, r)
    ELSE get_database_title(token, id, r)

AfterTitle == IF Handler.kind = "entity" THEN "author" ELSE "compose"
AfterAuthor == IF Handler.kind = "entity" THEN "compose" ELSE "page_id"

\* goes on without waiting for the response of requests.get
title_request_NoWait ==
    /\ pc = "title"
    /\ IF notion_token = ""
       THEN /\ page_title' = TitleOf(Handler, notion_token, entity_id, NoResponse)
            /\ UNCHANGED lookups
       ELSE /\ lookups' = Append(lookups, [op |-> Handler.lookup, id |-> entity_id, r |-> Pending])
            /\ page_title' = entity_id
    /\ pc' = AfterTitle
    /\ UNCHANGED <<inputs, event_type, handler_function, entity_id, author, result,
                   sent, error, response>>

\* get_page_title / get_database_title up to requests.get (lines 80-88, 99-107)
title_request ==
    /\ pc = "title"
    /\ IF notion_token = ""
       THEN /\ page_title' = TitleOf(Handler, notion_token, entity_id, NoResponse)
            /\ pc' = AfterTitle
            /\ UNCHANGED lookups
       ELSE /\ lookups' = Append(lookups, [op |-> Handler.lookup, id |-> entity_id, r |-> Pending])
            /\ pc' = "title_wait"
            /\ UNCHANGED page_title
    /\ UNCHANGED <<inputs, event_type, handler_function, entity_id, author, result,
                   sent, error, response>>

\* get_page_title / get_database_title from requests.get on (lines 88-96, 107-115)
title_response ==
    /\ pc = "title_wait"
    /\ \E r \in ResponsesOf(Handler.lookup) :
        /\ page_title' = TitleOf(Handler, notion_token, entity_id, r)
        /\ lookups' = [lookups EXCEPT ![Len(lookups)].r = r]
    /\ pc' = AfterTitle
    /\ UNCHANGED <<inputs, event_type, handler_function, entity_id, author, result,
                   sent, error, response>>

\* get_author_name up to requests.get in get_user_name (lines 151-163, 118-127)
author_request ==
    /\ pc = "author"
    /\ LET user_id == first_author_id(payload) IN
       IF IsRaise(user_id)
       THEN Abort(user_id.exc, "") /\ UNCHANGED <<author, lookups>>
       ELSE IF user_id = None \/ notion_token = ""
       THEN /\ author' = get_author_name(payload, notion_token, NoResponse).v
            /\ pc' = AfterAuthor
            /\ UNCHANGED <<lookups, error>>
       ELSE /\ lookups' = Append(lookups, [op |-> "users", id |-> user_id.v, r |-> Pending])
            /\ pc' = "author_wait"
            /\ UNCHANGED <<author, error>>
    /\ UNCHANGED <<inputs, event_type, handler_function, entity_id, page_title, result,
                   sent, response>>

\* asks once more when requests.get raised
author_response_Retry ==
    /\ pc = "author_wait"
    /\ \E r \in UserResponses :
        IF r.kind = "exception" /\ Len(lookups) < 3
        THEN /\ lookups' = Append([lookups EXCEPT ![Len(lookups)].r = r],
                                  [op |-> "users", id |-> lookups[Len(lookups)].id,
                                   r |-> Pending])
             /\ UNCHANGED <<author, pc>>
        ELSE /\ author' = get_author_name(payload, notion_token, r).v
             /\ lookups' = [lookups EXCEPT ![Len(lookups)].r = r]
             /\ pc' = AfterAuthor
    /\ UNCHANGED <<inputs, event_type, handler_function, entity_id, page_title, result,
                   sent, error, response>>

\* get_user_name from requests.get on, and the rest of get_author_name
\* (lines 127-148, 165-170)
author_response ==
    /\ pc = "author_wait"
    /\ \E r \in UserResponses :
        /\ author' = get_author_name(payload, notion_token, r).v
        /\ lookups' = [lookups EXCEPT ![Len(lookups)].r = r]
    /\ pc' = AfterAuthor
    /\ UNCHANGED <<inputs, event_type, handler_function, entity_id, page_title, result,
                   sent, error, response>>

\* data.parent.type as get_comment_created_message reads it (lines 489-491)
parent_type(p) ==
    check_none_or_string(
        WildValue_get(WildValue_get(WildValue_get(p, "data", Dict(<<>>)), "parent", Dict(<<>>)),
                      "type", None))

\* the body and the return of a formatter (e.g. lines 182-187, 489-506)
formatter_return ==
    /\ pc = "compose"
    /\ IF Handler.kind = "entity"
       THEN /\ result' = EntityResult(Handler, author, page_title)
            /\ pc' = "route"
            /\ UNCHANGED error
       ELSE LET pt == IF Handler.reads_parent THEN parent_type(payload) ELSE None IN
            IF IsRaise(pt)
            THEN Abort(pt.exc, "") /\ UNCHANGED result
            ELSE /\ result' = CommentResult(Handler, author, page_title, pt)
                 /\ pc' = "route"
                 /\ UNCHANGED error
    /\ UNCHANGED <<inputs, event_type, handler_function, entity_id, page_title, author,
                   lookups, sent, response>>

\* lines 619-627: the topic, check_send_webhook_message and the response
route_and_send ==
    /\ pc = "route"
    /\ sent' = Append(sent, [topic |-> TopicName(result[1], user_specified_topic, map_pages_to_topics),
                             body |-> result[2],
                             complete_event_type |-> Str(event_type)])
    /\ response' = "json_success"
    /\ pc' = "done"
    /\ UNCHANGED <<inputs, event_type, handler_function, entity_id, page_title, author,
                   result, lookups, error>>

Next ==
    \/ api_notion_webhook
    \/ handle_verification_request
    \/ formatter_entity_id
    \/ formatter_page_id
    \/ title_request
    \/ title_response
    \/ author_request
    \/ author_response
    \/ formatter_return
    \/ route_and_send

Spec == Init /\ [][Next]_vars

\* the request runs to its end: nothing suspends a step of the handler
FairSpec == Spec /\ WF_vars(Next)

---------------------------------------------------------------------------
(* Title extraction on the records a lookup can fetch *)

\* the most properties of a fetched page record
MaxProperties == 2
\* the most spans of the title array of a fetched database record
MaxSpans == 3

\* the four common names and two others
PropertyNames == {"title", "Title", "Name", "name", "Other", "Zed"}
\* a property typed "title" whose first span has text; one whose first span
\* has the empty text before a second span; one without spans; a property
\* of another type; a property that is no object
PropertyKinds == {"text", "empty", "nospans", "rich_text", "string"}

PropertyOf(name, kind) ==
    CASE kind = "text" ->
            Dict(<<<<"type", Str("title")>>,
                   <<"title", List(<<Span(Str("text of " \o name))>>)>>>>)
      [] kind = "empty" ->
            Dict(<<<<"type", Str("title")>>,
                   <<"title", List(<<Span(Str("")), Span(Str("second of " \o name))>>)>>>>)
      [] kind = "nospans" ->
            Dict(<<<<"type", Str("title")>>, <<"title", List(<<>>)>>>>)
      [] kind = "rich_text" ->
            Dict(<<<<"type", Str("rich_text")>>,
                   <<"title", List(<<Span(Str("rich text of " \o name))>>)>>>>)
      [] kind = "string" -> Str("string of " \o name)

\* the property maps of up to MaxProperties properties, in every order
PropertyMaps ==
    UNION {{Dict([i \in 1..n |-> <<names[i], PropertyOf(names[i], kinds[i])>>]) :
               names \in {s \in [1..n -> PropertyNames] :
                             \A i, j \in 1..n : i # j => s[i] # s[j]},
               kinds \in [1..n -> PropertyKinds]} :
           n \in 0..MaxProperties}

\* the bodies of a 200 response of /v1/pages/{id}
PageRecords ==
    {Dict(<<>>), List(<<>>), Dict(<<<<"object", Str("page")>>>>)}
    \cup {PageRecord(properties) : properties \in PropertyMaps}

\* the elements of a title array: spans with and without text, a span
\* without plain_text, an element that is no object
TitleElements(i) ==
    {Span(Str("span " \o ToString(i))), Span(Str("")), Span(None),
     Dict(<<<<"type", Str("text")>>>>), Str("element " \o ToString(i))}

TitleArrays ==
    UNION {{List(s) : s \in {t \in [1..n -> UNION {TitleElements(i) : i \in 1..n}] :
                                \A i \in 1..n : t[i] \in TitleElements(i)}} :
           n \in 0..MaxSpans}

DatabaseRecord(title) == MkDict(<<<<"object", Str("database")>>, <<"title", title>>>>)

\* the bodies of a 200 response of /v1/databases/{id}
DatabaseRecords ==
    {Dict(<<>>), List(<<>>), DatabaseRecord(Absent), DatabaseRecord(None),
     DatabaseRecord(Str("Tasks"))}
    \cup {DatabaseRecord(title) : title \in TitleArrays}

RecordsOf(op) == IF op = "pages" THEN PageRecords ELSE DatabaseRecords

\* a title lookup has answered 200 with a record
ExtractInit ==
    /\ payload = Dict(<<>>)
    /\ notion_token = "secret"
    /\ user_specified_topic = None
    /\ map_pages_to_topics = FALSE
    /\ pc = "extract"
    /\ event_type = ""
    /\ handler_function = ""
    /\ entity_id = "e1"
    /\ page_title = ""
    /\ author = ""
    /\ result = <<>>
    /\ \E op \in {"pages", "databases"} : \E record \in RecordsOf(op) :
          lookups = <<[op |-> op, id |-> "e1", r |-> Http(200, record)]>>
    /\ sent = <<>>
    /\ error = NoError
    /\ response = ""

\* lines 91-93: extract_page_title on the decoded body, and what
\* get_page_title returns
page_title_extraction ==
    /\ pc = "extract" /\ lookups[1].op = "pages"
    /\ result' = <<extract_page_title(lookups[1].r.body)>>
    /\ page_title' = get_page_title(notion_token, entity_id, lookups[1].r)
    /\ pc' = "extracted"
    /\ UNCHANGED <<inputs, event_type, handler_function, entity_id, author, lookups,
                   sent, error, response>>

\* lines 110-112: extract_database_title on the decoded body, and what
\* get_database_title returns
database_title_extraction ==
    /\ pc = "extract" /\ lookups[1].op = "databases"
    /\ result' = <<extract_database_title(lookups[1].r.body)>>
    /\ page_title' = get_database_title(notion_token, entity_id, lookups[1].r)
    /\ pc' = "extracted"
    /\ UNCHANGED <<inputs, event_type, handler_function, entity_id, author, lookups,
                   sent, error, response>>

ExtractNext ==
    \/ page_title_extraction
    \/ database_title_extraction

ExtractSpec == ExtractInit /\ [][ExtractNext]_vars

---------------------------------------------------------------------------
(* The payload as the properties below read it *)

Field(d, key) == IF d.k = "dict" /\ HasKey(d, key) THEN Lookup(d, key) ELSE Absent
PToken == Field(payload, "verification_token")
PType == Field(payload, "type")
PEntityId == Field(Field(payload, "entity"), "id")
PAuthors == Field(payload, "authors")
PPageId == Field(Field(payload, "data"), "page_id")
PParentType == Field(Field(Field(payload, "data"), "parent"), "type")

\* the payload carries no verification_token (or null): is_verification is false
NoToken == PToken \in {Absent, None}
KnownType == PType.k = "str" /\ PType.v \in ALL_EVENT_TYPES
\* the request got past the handshake test and the table
Dispatched == handler_function # ""
HasOverride == user_specified_topic.k = "str" /\ user_specified_topic.v # ""
\* the id the formatter of the event resolves a title for
PRawId == IF KnownType /\ EVENT_TO_FUNCTION_MAPPER[PType.v].kind = "comment"
          THEN PPageId ELSE PEntityId
\* a list of well-formed authors, the first with a non-empty id
AuthorsToResolve ==
    /\ PAuthors.k = "list" /\ Len(PAuthors.v) >= 1
    /\ check_authors_list(PAuthors) = PAuthors
    /\ Lookup(PAuthors.v[1], "id").v # ""
FirstAuthorId == Lookup(PAuthors.v[1], "id").v
\* get_author_name has returned to the formatter
AuthorResolved ==
    /\ Dispatched
    /\ \/ Handler.kind = "entity" /\ pc \in {"compose", "route", "done"} /\ entity_id # ""
       \/ Handler.kind = "comment"
          /\ pc \in {"page_id", "title", "title_wait", "compose", "route", "done"}
\* get_page_title / get_database_title has returned to the formatter
TitleResolved ==
    /\ Dispatched
    /\ \/ Handler.kind = "entity" /\ pc \in {"author", "author_wait", "compose", "route", "done"}
          /\ entity_id # ""
       \/ Handler.kind = "comment" /\ pc \in {"compose", "route", "done"} /\ entity_id # ""

---------------------------------------------------------------------------
(* Properties *)

\* C1: the topic of the message a formatter's request delivers is the
\* override topic when it is non-empty; else "Notion" when
\* map_pages_to_topics is false; else the topic the formatter returned.
C1_TopicPrecedence ==
    (pc = "done" /\ Dispatched) =>
        /\ Len(sent) = 1
        /\ HasOverride => sent[1].topic = user_specified_topic.v
        /\ (~HasOverride /\ ~map_pages_to_topics) => sent[1].topic = "Notion"
        /\ (~HasOverride /\ map_pages_to_topics) => sent[1].topic = result[1]

C1_Witness ==
    /\ pc = "done" /\ Dispatched
    /\ user_specified_topic = Str("MyTopic") /\ ~map_pages_to_topics
    /\ result[1] = "Notion Database"
    /\ sent[1].topic = "MyTopic"

\* C2: a payload without verification_token whose type is a string the
\* table has no key for ends in UnsupportedWebhookEventTypeError carrying
\* that string; no formatter runs, no lookup is issued, nothing is sent.
C2_UnsupportedType ==
    (NoToken /\ PType.k = "str" /\ PType.v \notin ALL_EVENT_TYPES) =>
        /\ pc \in {"start", "aborted"}
        /\ pc = "aborted" =>
              error = [exc |-> "UnsupportedWebhookEventTypeError", arg |-> PType.v]
        /\ handler_function = "" /\ lookups = <<>> /\ sent = <<>> /\ response = ""

C2_Witness ==
    /\ PType = Str("foo.bar") /\ NoToken
    /\ pc = "aborted"
    /\ error = [exc |-> "UnsupportedWebhookEventTypeError", arg |-> "foo.bar"]
    /\ sent = <<>>

\* C3: a payload with a non-empty verification_token runs to one delivery,
\* to topic "Notion", of the verification message with the token between
\* grave accents, and a success response, whatever its type, the override
\* topic and the flag; no formatter runs and no lookup is issued.
C3_Handshake ==
    (PToken.k = "str" /\ PToken.v # "") =>
        /\ pc \in {"start", "verification", "done"}
        /\ pc # "done" => (sent = <<>> /\ ENABLED Next)
        /\ pc = "done" =>
              /\ sent = <<[topic |-> "Notion",
                           body |-> "This is a webhook configuration test message from Notion.\n\nYour verification token is: "
                                    \o GraveAccent \o PToken.v \o GraveAccent
                                    \o "\n\nPlease copy this token and paste it into your Notion webhook configuration to complete the setup.",
                           complete_event_type |-> None]>>
              /\ response = "json_success"
        /\ handler_function = "" /\ lookups = <<>> /\ error = NoError

C3_Witness ==
    /\ PToken = Str("TOK") /\ PType = Str("page.created")
    /\ user_specified_topic = Str("MyTopic") /\ map_pages_to_topics
    /\ pc = "done" /\ Len(sent) = 1 /\ sent[1].topic = "Notion"

\* the request took the handshake path
HandshakeTaken == pc = "verification" \/ (pc = "done" /\ ~Dispatched)
\* the request read the type field of the payload
TypeDispatched ==
    \/ Dispatched
    \/ pc = "aborted" /\ error.exc = "UnsupportedWebhookEventTypeError"
    \/ pc = "aborted" /\ error.exc = "ValidationError" /\ PType.k # "str"

\* C4 as stated: the handshake path is taken exactly for a non-empty
\* verification_token; an absent or empty token goes on to the type.
C4_AsStated ==
    pc # "start" =>
        /\ HandshakeTaken <=> (PToken.k = "str" /\ PToken.v # "")
        /\ (PToken = Absent \/ PToken = Str("")) => TypeDispatched

\* C4: the handshake path is taken exactly when verification_token is a
\* string, the empty one included; an absent or null token goes on to the
\* type field.
C4_HandshakeIffStringToken ==
    pc # "start" =>
        /\ HandshakeTaken <=> PToken.k = "str"
        /\ NoToken => TypeDispatched

C4_Witness ==
    /\ PToken = Str("") /\ PType = Str("page.created")
    /\ pc = "done" /\ ~Dispatched /\ Len(sent) = 1

\* C5: without a token no lookup is issued, the title a formatter resolves
\* is the raw id (entity.id, or data.page_id for a comment), and a first
\* author with a non-empty id is named "user: {id}".
C5_NoCredential ==
    notion_token = "" =>
        /\ lookups = <<>>
        /\ TitleResolved =>
              /\ PRawId.k = "str" /\ PRawId.v # ""
              /\ page_title = PRawId.v
        /\ (pc \in {"route", "done"} /\ TitleResolved) =>
              result[1] = Handler.prefix \o PRawId.v
        /\ (AuthorResolved /\ AuthorsToResolve) =>
              author = "user: " \o FirstAuthorId
                       \o (IF Len(PAuthors.v) > 1 THEN OthersAnnotation(Len(PAuthors.v) - 1) ELSE "")

C5_Witness ==
    /\ notion_token = "" /\ pc = "done" /\ map_pages_to_topics
    /\ event_type = "data_source.content_updated"
    /\ sent = <<[topic |-> "ds: e1",
                 body |-> "**user: u1** updated data source **e1** content",
                 complete_event_type |-> Str("data_source.content_updated")]>>

\* a lookup that gave no decodable body: requests.get raised, the status
\* is not 200, or the body is no JSON
HardFailure(r) ==
    \/ r.kind = "exception"
    \/ r.kind = "http" /\ (r.status_code # 200 \/ r.body = NotJson)
Decoded(r) == r.kind = "http" /\ r.status_code = 200 /\ r.body # NotJson
\* a decoded body that is no record of the API: not an object, or an object
\* whose properties is not one
MalformedBody(r) ==
    /\ Decoded(r)
    /\ \/ r.body.k # "dict"
       \/ Field(r.body, "properties") # Absent /\ Field(r.body, "properties").k # "dict"
\* a decoded body the extraction raises on: a number, or an object whose
\* properties is not one
ExtractionRaises(r) ==
    /\ Decoded(r)
    /\ \/ r.body.k = "num"
       \/ Field(r.body, "properties") # Absent /\ Field(r.body, "properties").k # "dict"
\* a decoded body that is empty: {} or []
EmptyBody(r) == Decoded(r) /\ r.body \in {Dict(<<>>), List(<<>>)}
Untitled(op) == IF op = "pages" THEN "Untitled Page" ELSE "Untitled Database"
AnnotationOf(n) == IF n > 1 THEN OthersAnnotation(n - 1) ELSE ""
\* no exception of a lookup leaves the request, and none leaves it while a
\* lookup is under way
NoLookupAbort ==
    pc = "aborted" =>
        /\ error.exc \in {"ValidationError", "UnsupportedWebhookEventTypeError"}
        /\ lookups # <<>> => lookups[Len(lookups)].r # Pending

\* C6 as stated: every failed lookup of a title, a malformed body included,
\* gives the raw id; every failed lookup of a user gives "user: {id}"; no
\* failure leaves the request.
C6_AsStated ==
    /\ NoLookupAbort
    /\ \A i \in 1..Len(lookups) :
          LET l == lookups[i] IN
          (l.r # Pending /\ (HardFailure(l.r) \/ MalformedBody(l.r))) =>
              IF l.op = "users"
              THEN author = "user: " \o l.id \o AnnotationOf(Len(PAuthors.v))
              ELSE page_title = l.id

\* C6: a title lookup that raises, answers with another status than 200 or
\* with no JSON, or whose record the extraction raises on, gives the raw
\* id; an empty record ({} or []) gives the placeholder title; every such
\* lookup of a user gives "user: {id}"; no failure leaves the request.
C6_LookupFailureFallback ==
    /\ NoLookupAbort
    /\ \A i \in 1..Len(lookups) :
          LET l == lookups[i] IN
          l.r # Pending =>
              IF l.op = "users"
              THEN (HardFailure(l.r) \/ MalformedBody(l.r)) =>
                       author = "user: " \o l.id \o AnnotationOf(Len(PAuthors.v))
              ELSE /\ (HardFailure(l.r) \/ ExtractionRaises(l.r)) => page_title = l.id
                   /\ EmptyBody(l.r) => page_title = Untitled(l.op)

C6_Witness ==
    /\ pc = "done" /\ Len(lookups) = 2
    /\ lookups[1] = [op |-> "databases", id |-> "e1", r |-> Http(404, NotJson)]
    /\ lookups[2] = [op |-> "users", id |-> "u1", r |-> RequestException]
    /\ sent[1].body = "**user: u1** created database **e1**"

\* the response of the user lookup of the request, if it issued one
UserLookupResponse ==
    IF \E i \in 1..Len(lookups) : lookups[i].op = "users"
    THEN lookups[CHOOSE i \in 1..Len(lookups) : lookups[i].op = "users"].r
    ELSE NoResponse

\* C7: for n authors whose first resolves to the name A, the author string
\* is A for n = 1, "A (+1 other)" for n = 2 and "A (+{n-1} others)" from
\* n = 3 on.
C7_AuthorAnnotation ==
    (AuthorResolved /\ AuthorsToResolve) =>
        LET n == Len(PAuthors.v)
            A == get_user_name(notion_token, FirstAuthorId, UserLookupResponse)
        IN  author = CASE n = 1 -> A
                       [] n = 2 -> A \o " (+1 other)"
                       [] n >= 3 -> A \o " (+" \o ToString(n - 1) \o " others)"

C7_Witness ==
    /\ AuthorResolved /\ AuthorsToResolve
    /\ Len(PAuthors.v) = 3
    /\ author = "Alice (+2 others)"

\* C8 as stated: a request without verification_token whose type is a key
\* of the table never aborts, whatever its other fields and the lookups
\* give: it runs to one delivery of its topic, a non-empty body and its
\* type.
C8_AsStated ==
    (NoToken /\ KnownType) =>
        /\ pc # "aborted"
        /\ pc # "done" => (sent = <<>> /\ ENABLED Next)
        /\ pc = "done" =>
              /\ Len(sent) = 1
              /\ sent[1].body # ""
              /\ sent[1].complete_event_type = PType
              /\ response = "json_success"

\* C9 as stated: a page, database or data-source formatter whose payload
\* has no entity id, or an empty one, returns the generic pair of its event
\* type and issues no lookup.
C9_AsStated ==
    (NoToken /\ KnownType /\ pc \notin {"start", "entity_id"}
       /\ Handler.kind = "entity" /\ PEntityId \in {Absent, Str("")}) =>
        /\ pc \in {"route", "done"}
        /\ result = Handler.fallback
        /\ lookups = <<>>

\* the passive body of the formatter for the title it resolved
PassiveBody ==
    IF Handler.kind = "entity"
    THEN IF entity_id = "" THEN Handler.fallback[2]
         ELSE Handler.passive[1] \o page_title \o Handler.passive[2]
    ELSE IF entity_id = "" THEN Handler.generic_passive
         ELSE IF Handler.reads_parent /\ PParentType = Str("block")
              THEN Handler.block_passive[1] \o page_title \o Handler.block_passive[2]
              ELSE Handler.passive[1] \o page_title \o Handler.passive[2]

\* C10: without an authors field, or with an empty list, the author string
\* is empty, no user is looked up and the body is the passive one.
C10_NoAuthors ==
    (Dispatched /\ PAuthors \in {Absent, List(<<>>)}) =>
        /\ author = ""
        /\ \A i \in 1..Len(lookups) : lookups[i].op # "users"
        /\ pc \in {"route", "done"} => result[2] = PassiveBody

C10_Witness ==
    /\ PAuthors = List(<<>>) /\ notion_token = "secret"
    /\ pc = "done" /\ Len(lookups) = 1
    /\ sent[1].body = "New page **Roadmap** was created"

\* a list of well-formed authors, the first with the empty id
FirstAuthorIdEmpty ==
    /\ PAuthors.k = "list" /\ Len(PAuthors.v) >= 1
    /\ check_authors_list(PAuthors) = PAuthors
    /\ Lookup(PAuthors.v[1], "id") = Str("")
\* the formatter returned a body for a title (not its generic pair)
TitledBody == pc \in {"route", "done"} /\ Dispatched /\ entity_id # ""

\* C11 as stated: for a non-empty authors list whose first id is "", the
\* author string is "Notion User", annotated for more than one author, and
\* the body is the active one.
C11_AsStated ==
    (AuthorResolved /\ FirstAuthorIdEmpty) =>
        /\ author = "Notion User" \o AnnotationOf(Len(PAuthors.v))
        /\ TitledBody => result[2] # PassiveBody

\* the categories and actions of the page, database and data-source types
EntityCategories == {"page", "database", "data_source"}
EntityActions ==
    {"created", "content_updated", "properties_updated", "moved", "deleted",
     "undeleted", "locked", "unlocked", "schema_updated"}
\* category and action of a type written category.action
CategoryOf(t) ==
    CHOOSE c \in EntityCategories : \E a \in EntityActions : t = c \o "." \o a
ActionOf(t) ==
    CHOOSE a \in EntityActions : \E c \in EntityCategories : t = c \o "." \o a
NounOf(c) ==
    CASE c = "page" -> "page" [] c = "database" -> "database"
      [] c = "data_source" -> "data source"
CapitalNounOf(c) ==
    CASE c = "page" -> "Page" [] c = "database" -> "Database"
      [] c = "data_source" -> "Data source"
VerbOf(a) ==
    CASE a = "created" -> "created"
      [] a \in {"content_updated", "properties_updated", "schema_updated"} -> "updated"
      [] a \in {"moved", "deleted"} -> "moved"
      [] a = "undeleted" -> "restored"
      [] a = "locked" -> "locked"
      [] a = "unlocked" -> "unlocked"
SuffixOf(a) ==
    CASE a = "content_updated" -> " content"
      [] a = "properties_updated" -> " properties"
      [] a = "schema_updated" -> " schema"
      [] a = "deleted" -> " to trash"
      [] a = "undeleted" -> " from trash"
      [] OTHER -> ""
PassivePhraseOf(a) ==
    CASE a = "created" -> "was created"
      [] a = "content_updated" -> "content was updated"
      [] a = "properties_updated" -> "properties were updated"
      [] a = "schema_updated" -> "schema was updated"
      [] a = "moved" -> "was moved"
      [] a = "deleted" -> "was moved to trash"
      [] a = "undeleted" -> "was restored from trash"
      [] a = "locked" -> "was locked"
      [] a = "unlocked" -> "was unlocked"
\* the body of a type for an author string and a title, as the table of
\* verbs, nouns and suffixes gives it
BodyOfType(t, author_str, title) ==
    LET c == CategoryOf(t)
        a == ActionOf(t)
    IN  IF author_str # ""
        THEN "**" \o author_str \o "** " \o VerbOf(a) \o " " \o NounOf(c)
             \o " **" \o title \o "**" \o SuffixOf(a)
        ELSE (IF a = "created" THEN "New " \o NounOf(c) ELSE CapitalNounOf(c))
             \o " **" \o title \o "** " \o PassivePhraseOf(a)
\* the formatter of a page, database or data-source type returned a body
\* for a non-empty entity id
EntityBody == TitledBody /\ Handler.kind = "entity"

\* C12: for the 20 page, database and data-source types and a non-empty
\* entity id, the body is "**{author}** {verb} {noun} **{title}**{suffix}"
\* when the author string is non-empty and "{Noun} **{title}** {passive
\* phrase}" ("New {noun} ..." for created) exactly when it is empty.
C12_EntityBody ==
    EntityBody => result[2] = BodyOfType(PType.v, author, page_title)

C12_Witness ==
    /\ EntityBody /\ pc = "done"
    /\ PType = Str("data_source.schema_updated")
    /\ PAuthors = List(<<>>)
    /\ sent[1].body = "Data source **Tasks** schema was updated"

PrefixOf(c) ==
    CASE c = "page" -> "page: " [] c = "database" -> "db: "
      [] c = "data_source" -> "ds: "
\* the title lookups of the request and the response of the one it issued
TitleLookups == {i \in 1..Len(lookups) : lookups[i].op # "users"}
TitleLookupResponse ==
    IF TitleLookups # {} THEN lookups[CHOOSE i \in TitleLookups : TRUE].r
    ELSE NoResponse

\* C13: for a non-empty entity id the topic a page, database or data-source
\* formatter returns is "page: ", "db: " or "ds: " followed by the title,
\* the same title as in the body; the title is resolved by at most one
\* lookup, the page lookup for page.* and the database lookup for
\* database.* and data_source.*.
C13_TopicHint ==
    EntityBody =>
        LET c == CategoryOf(PType.v)
            title == IF c = "page"
                     THEN get_page_title(notion_token, PEntityId.v, TitleLookupResponse)
                     ELSE get_database_title(notion_token, PEntityId.v, TitleLookupResponse)
        IN  /\ result[1] = PrefixOf(c) \o title
            /\ result[2] = BodyOfType(PType.v, author, title)
            /\ Cardinality(TitleLookups) <= 1
            /\ \A i \in TitleLookups :
                  /\ lookups[i].op = (IF c = "page" THEN "pages" ELSE "databases")
                  /\ lookups[i].id = PEntityId.v

C13_Witness ==
    /\ EntityBody /\ pc = "done" /\ map_pages_to_topics
    /\ PType = Str("data_source.content_updated")
    /\ Len(lookups) = 2 /\ lookups[1].op = "databases"
    /\ sent[1].topic = "ds: Tasks"
    /\ sent[1].body = "**Alice** updated data source **Tasks** content"

PData == Field(payload, "data")
\* data is absent or an object whose page_id is absent, null or empty
NoPageId == (PData = Absent \/ PData.k = "dict") /\ PPageId \in {Absent, None, Str("")}
HasPageId == PPageId.k = "str" /\ PPageId.v # ""
CommentVerbOf(t) ==
    CASE t = "comment.created" -> "added" [] t = "comment.updated" -> "updated"
      [] t = "comment.deleted" -> "deleted"
CommentPassiveOf(t) ==
    CASE t = "comment.created" -> "New comment was added"
      [] t = "comment.updated" -> "Comment was updated"
      [] t = "comment.deleted" -> "Comment was deleted"
\* a comment formatter returned
CommentReturned == pc \in {"route", "done"} /\ Dispatched /\ Handler.kind = "comment"

\* C14: a comment formatter resolves a title for data.page_id only, never
\* for entity.id: with a non-empty page id its topic is "page: " and the
\* title of that page; with data or page_id absent or empty it issues no
\* title lookup and returns "Notion Update" with "**{author}** added /
\* updated / deleted a comment", or the passive sentence for an empty
\* author string, whether or not the payload has an entity; only the
\* authors field can make it raise then.
C14_CommentPageId ==
    (Dispatched /\ Handler.kind = "comment") =>
        /\ \A i \in TitleLookups :
              lookups[i].op = "pages" /\ HasPageId /\ lookups[i].id = PPageId.v
        /\ (CommentReturned /\ HasPageId) =>
              result[1] = "page: " \o get_page_title(notion_token, PPageId.v, TitleLookupResponse)
        /\ NoPageId =>
              /\ TitleLookups = {}
              /\ pc = "aborted" => IsRaise(first_author_id(payload))
              /\ CommentReturned =>
                    result = <<"Notion Update",
                               IF author # ""
                               THEN "**" \o author \o "** " \o CommentVerbOf(PType.v) \o " a comment"
                               ELSE CommentPassiveOf(PType.v)>>

C14_Witness ==
    /\ CommentReturned /\ pc = "done" /\ map_pages_to_topics
    /\ PType = Str("comment.deleted") /\ PEntityId = Str("e1") /\ PData = Dict(<<>>)
    /\ notion_token = "secret"
    /\ sent[1].topic = "Notion Update"
    /\ sent[1].body = "**Alice (+1 other)** deleted a comment"

\* the words of a comment body around author and title: active and passive
CommentPhraseOf(t, on_block) ==
    CASE t = "comment.created" /\ on_block ->
            <<"added a comment on a block in", "New comment on a block in">>
      [] t = "comment.created" /\ ~on_block ->
            <<"added a comment on", "New comment on">>
      [] t = "comment.updated" -> <<"updated a comment on", "Comment updated on">>
      [] t = "comment.deleted" -> <<"deleted a comment on", "Comment deleted on">>

\* C15: for a non-empty data.page_id the body of comment.created says "on a
\* block in" exactly when data.parent.type is "block", and "on" for any
\* other string, null, or no parent or type at all; the bodies of
\* comment.updated and comment.deleted are the same whatever data.parent
\* is, which they never read.
C15_CommentParentType ==
    (Dispatched /\ Handler.kind = "comment" /\ HasPageId) =>
        /\ CommentReturned =>
              LET phrase == CommentPhraseOf(PType.v, PParentType = Str("block")) IN
              result[2] = IF author # ""
                          THEN "**" \o author \o "** " \o phrase[1] \o " **" \o page_title \o "**"
                          ELSE phrase[2] \o " **" \o page_title \o "**"
        /\ (pc = "aborted" /\ PType.v # "comment.created") =>
              IsRaise(first_author_id(payload))

C15_Witness ==
    /\ CommentReturned /\ pc = "done"
    /\ PType = Str("comment.created") /\ PParentType = Str("block")
    /\ sent[1].body = "**Ann Lee** added a comment on a block in **Roadmap**"

\* C16: the pair a formatter returns has a non-empty topic and a non-empty
\* body, for every payload it returns on and every outcome of the lookups;
\* every message delivered has a non-empty topic and a non-empty body.
C16_NonEmptyMessage ==
    /\ (pc \in {"route", "done"} /\ Dispatched) =>
          /\ Len(result) = 2
          /\ result[1] # "" /\ result[2] # ""
    /\ \A i \in 1..Len(sent) : sent[i].topic # "" /\ sent[i].body # ""

C16_Witness ==
    /\ pc = "done" /\ Dispatched
    /\ PEntityId = Str("") /\ user_specified_topic = Str("") /\ map_pages_to_topics
    /\ result = <<"Notion Page", "Page was locked">>
    /\ sent[1].topic = "Notion Page" /\ sent[1].body = "Page was locked"

\* the event types by category and action
TypePairs ==
    ({"page"} \X {"created", "content_updated", "properties_updated", "moved",
                  "deleted", "undeleted", "locked", "unlocked"})
    \cup ({"database", "data_source"}
          \X {"created", "content_updated", "moved", "deleted", "undeleted",
              "schema_updated"})
    \cup ({"comment"} \X {"created", "updated", "deleted"})
TypeOfPair(p) == p[1] \o "." \o p[2]
FormatterOfPair(p) == "get_" \o p[1] \o "_" \o p[2] \o "_message"
KnownEventTypes == {TypeOfPair(p) : p \in TypePairs}
PairOf(t) == CHOOSE p \in TypePairs : TypeOfPair(p) = t

\* C18: the keys of the formatter table are the 23 types page.{8 actions},
\* database.{6}, data_source.{6} and comment.{3}; each key maps to the
\* formatter of its own category and action, which is the one a request of
\* that type runs; a type outside the set is rejected as unsupported.
C18_FormatterTable ==
    /\ ALL_EVENT_TYPES = KnownEventTypes
    /\ Cardinality(ALL_EVENT_TYPES) = 23
    /\ \A p \in TypePairs : EVENT_TO_FUNCTION_MAPPER[TypeOfPair(p)].name = FormatterOfPair(p)
    /\ Dispatched =>
          /\ PType.k = "str" /\ PType.v \in KnownEventTypes
          /\ handler_function = FormatterOfPair(PairOf(PType.v))
    /\ (NoToken /\ PType.k = "str" /\ PType.v \notin KnownEventTypes /\ pc # "start") =>
          /\ pc = "aborted"
          /\ error = [exc |-> "UnsupportedWebhookEventTypeError", arg |-> PType.v]
          /\ handler_function = ""

C18_Witness ==
    /\ NoToken /\ PType = Str("database.locked")
    /\ pc = "aborted"
    /\ error = [exc |-> "UnsupportedWebhookEventTypeError", arg |-> "database.locked"]
    /\ handler_function = "" /\ lookups = <<>> /\ sent = <<>>

UserLookups == {i \in 1..Len(lookups) : lookups[i].op = "users"}
\* one lookup at a time; the formatter returns when none is under way, the
\* topic is chosen from its return, and delivery is the last step
StepsInSequence ==
    /\ \A i \in 1..Len(lookups) : lookups[i].r = Pending =>
          (i = Len(lookups) /\ pc \in {"title_wait", "author_wait"})
    /\ result # <<>> => pc \in {"route", "done"}
    /\ sent # <<>> => (pc = "done" /\ result # <<>> /\ Len(sent) = 1)

\* C19 as stated: for every type of the table, the comment types included,
\* the title lookup comes before the author lookup, the two never overlap,
\* and formatting, routing and delivery follow in that order.
C19_AsStated ==
    Dispatched =>
        /\ StepsInSequence
        /\ \A i \in TitleLookups, j \in UserLookups : i < j

\* C19: for page, database and data-source types the title lookup comes
\* before the author lookup; for the comment types the author lookup comes
\* first and the title lookup after it; in both the two never overlap, and
\* formatting, routing and delivery follow in that order.
C19_LookupOrder ==
    Dispatched =>
        /\ StepsInSequence
        /\ Len(lookups) <= 2
        /\ \A i \in TitleLookups, j \in UserLookups :
              IF Handler.kind = "comment" THEN j < i ELSE i < j
        /\ (Handler.kind = "entity" /\ UserLookups # {}) => TitleLookups # {}
        /\ (Handler.kind = "comment" /\ TitleLookups # {}) =>
              /\ pc \notin {"author", "author_wait"}
              /\ AuthorsToResolve => UserLookups # {}

C19_Witness ==
    /\ pc = "done" /\ PType = Str("comment.updated")
    /\ Len(lookups) = 2
    /\ lookups[1] = [op |-> "users", id |-> "u1", r |-> Http(404, NotJson)]
    /\ lookups[2].op = "pages" /\ lookups[2].id = "p1"
    /\ sent[1].body = "**user: u1** updated a comment on **Roadmap**"

\* C20 as stated: a successful lookup of a first author with a non-empty id
\* gives the record's non-empty name, else for a person the name derived
\* from the local part of person.email, else "user: {id}", an empty local
\* part included; the author string is never empty and the body is the
\* active one.
C20_AsStated ==
    (AuthorResolved /\ AuthorsToResolve) =>
        /\ Decoded(UserLookupResponse) =>
              LET user_data == UserLookupResponse.body
                  name == Field(user_data, "name")
                  email == Field(Field(user_data, "person"), "email")
                  A == IF name.k = "str" /\ name.v # "" THEN name.v
                       ELSE IF /\ Field(user_data, "type") = Str("person")
                               /\ email.k = "str"
                               /\ NameFromEmail(email.v) # ""
                       THEN NameFromEmail(email.v)
                       ELSE "user: " \o FirstAuthorId
              IN  author = A \o AnnotationOf(Len(PAuthors.v))
        /\ author # ""
        /\ TitledBody => result[2] # PassiveBody

\* the record a title is extracted from
FetchedRecord == lookups[1].r.body
PageExtracted == pc = "extracted" /\ lookups[1].op = "pages"
DatabaseExtracted == pc = "extracted" /\ lookups[1].op = "databases"
Least(S) == CHOOSE x \in S : \A y \in S : x <= y
\* the names of the claim, in its order
NamesInOrder == <<"title", "Title", "Name", "name">>
\* a property whose declared type is "title"
DeclaredTitle(p) == p.k = "dict" /\ Field(p, "type") = Str("title")
\* the plain text of the first span of a property, "" when it has none
FirstSpanText(p) ==
    LET t == Field(p, "title") IN
    IF /\ t.k = "list" /\ Len(t.v) >= 1 /\ t.v[1].k = "dict"
       /\ Field(t.v[1], "plain_text").k = "str"
    THEN Field(t.v[1], "plain_text").v
    ELSE ""
HasTitleText(p) == DeclaredTitle(p) /\ FirstSpanText(p) # ""
TextOrUntitledPage(t) == IF t # "" THEN t ELSE "Untitled Page"
NoProperties(record) ==
    record \in {Dict(<<>>), List(<<>>)} \/ Field(record, "properties") = Absent

\* the title as the claim words it: the first of the four names typed
\* "title" decides; the other properties only when none of the four is
StatedPageTitle(record) ==
    IF NoProperties(record) THEN "Untitled Page"
    ELSE LET props == Field(record, "properties")
             named == {i \in 1..4 : /\ HasKey(props, NamesInOrder[i])
                                    /\ DeclaredTitle(Lookup(props, NamesInOrder[i]))}
             typed == {i \in 1..Len(props.v) : DeclaredTitle(props.v[i][2])}
         IN  IF named # {}
             THEN TextOrUntitledPage(FirstSpanText(Lookup(props, NamesInOrder[Least(named)])))
             ELSE IF typed # {}
             THEN TextOrUntitledPage(FirstSpanText(props.v[Least(typed)][2]))
             ELSE "Untitled Page"

\* the title with a property counting only if its first span has text
TextPageTitle(record) ==
    IF NoProperties(record) THEN "Untitled Page"
    ELSE LET props == Field(record, "properties")
             named == {i \in 1..4 : /\ HasKey(props, NamesInOrder[i])
                                    /\ HasTitleText(Lookup(props, NamesInOrder[i]))}
             typed == {i \in 1..Len(props.v) : HasTitleText(props.v[i][2])}
         IN  IF named # {}
             THEN FirstSpanText(Lookup(props, NamesInOrder[Least(named)]))
             ELSE IF typed # {}
             THEN FirstSpanText(props.v[Least(typed)][2])
             ELSE "Untitled Page"

\* C21 as stated: the first of title, Title, Name, name whose type is
\* "title" gives the text of its first span; only when none of the four is
\* typed "title" the first property so typed, in record order, gives it;
\* "Untitled Page" without title text, for an empty record and for a
\* record without properties.
C21_AsStated ==
    PageExtracted => result = <<Str(StatedPageTitle(FetchedRecord))>>

\* C21: the first of title, Title, Name, name that is typed "title" and
\* whose first span has non-empty text gives that text; when none of the
\* four does, the first property in record order that is typed "title" and
\* whose first span has non-empty text gives it; "Untitled Page" when no
\* property does, for an empty record and for a record without properties.
C21_PageTitleExtraction ==
    PageExtracted =>
        /\ result = <<Str(TextPageTitle(FetchedRecord))>>
        /\ page_title = TextPageTitle(FetchedRecord)

C21_Witness ==
    /\ PageExtracted
    /\ FetchedRecord = PageRecord(Dict(<<<<"Name", PropertyOf("Name", "empty")>>,
                                         <<"Zed", PropertyOf("Zed", "text")>>>>))
    /\ page_title = "text of Zed"

\* the plain text of an element of a title array, "" for an element that is
\* no record or has no text
SpanText(e) ==
    IF e.k = "dict" /\ Field(e, "plain_text").k = "str"
    THEN Field(e, "plain_text").v
    ELSE ""
FirstTextOf(record) ==
    LET title == Field(record, "title") IN
    IF title.k # "list" THEN "Untitled Database"
    ELSE LET texts == {i \in 1..Len(title.v) : SpanText(title.v[i]) # ""} IN
         IF texts = {} THEN "Untitled Database"
         ELSE SpanText(title.v[Least(texts)])

\* C22: the title of a fetched database or data-source record is the plain
\* text of the first element of its title array that is a record with
\* non-empty plain text, the elements before it being skipped; it is
\* "Untitled Database" for an empty record, a record without a title array
\* and an array in which no span has text.
C22_DatabaseTitleExtraction ==
    DatabaseExtracted =>
        /\ result = <<Str(FirstTextOf(FetchedRecord))>>
        /\ page_title = FirstTextOf(FetchedRecord)

C22_Witness ==
    /\ DatabaseExtracted
    /\ FetchedRecord = DatabaseRecord(List(<<Str("element 1"), Span(Str("")),
                                             Span(Str("span 3"))>>))
    /\ page_title = "span 3"

\* C23: a request issues at most one title lookup and at most one user
\* lookup, the latter for the id of the first author whatever the number
\* of authors; a lookup that failed is not issued again; a request without
\* a credential and a handshake request issue none.
C23_LookupBudget ==
    /\ Len(lookups) <= 2
    /\ Cardinality(TitleLookups) <= 1
    /\ Cardinality(UserLookups) <= 1
    /\ \A i \in UserLookups : AuthorsToResolve /\ lookups[i].id = FirstAuthorId
    /\ \A i, j \in 1..Len(lookups) :
          (i < j /\ HardFailure(lookups[i].r)) =>
              <<lookups[j].op, lookups[j].id>> # <<lookups[i].op, lookups[i].id>>
    /\ notion_token = "" => lookups = <<>>
    /\ (PToken.k = "str" \/ HandshakeTaken) => lookups = <<>>

C23_Witness ==
    /\ pc = "done" /\ Dispatched
    /\ PAuthors = AuthorsOf("u1", MaxAuthors)
    /\ lookups = <<[op |-> "pages", id |-> "e1", r |-> RequestException],
                   [op |-> "users", id |-> "u1", r |-> Http(404, NotJson)]>>
    /\ sent[1].body = "**user: u1 (+3 others)** unlocked page **e1**"

=============================================================================
